---- MODULE Spec2Model ----
(***************************************************************************)
(* Goodreads scraper: the detail-extraction pipeline (scraper.py and its   *)
(* basic variant books_scraper.py) and the URL-discovery crawler (url.py   *)
(* and its basic variant url_scraper.py).                                  *)
(*                                                                         *)
(* Five sub-systems share the module, each with its own specifications:    *)
(*   SpecFetch  fetch_url_with_retries on a stream of request outcomes     *)
(*   SpecParse  scrape_goodreads_book's parsing of one fetched page        *)
(*   SpecBatch  scrape_multiple_books over an input URL list               *)
(*   SpecCrawl  fetch_goodreads_urls followed by the tool's main           *)
(*   SpecSave   save_data_to_json calls on one path                        *)
(***************************************************************************)
EXTENDS Integers, Sequences, FiniteSets, TLC

VARIABLES
    f_retries,   \* fetch_url_with_retries: the retries argument
    f_stream,    \* the outcome the network gives to the k-th request
    f_ret,       \* what the call returned
    f_pc,        \* "call" before the call, "done" after it
    variant,     \* which script runs: "scraper" or "books_scraper"
    p_page,      \* SpecParse: the fetched page
    p_rand,      \* SpecParse: the three random draws
    p_ret,       \* SpecParse: what the parser returned
    p_pc,        \* "call" / "done"
    book_urls,   \* scrape_multiple_books: the input list
    idx,         \* position of the for loop (next URL to handle)
    books_data,  \* the accumulator
    sleeps,      \* rate-limit sleeps performed so far
    lastSleep,   \* duration of the latest rate-limit sleep (0: none yet)
    log,         \* outcome of each URL handled so far, in order
    kept,        \* the record each handled URL produced (None if none)
    fetched,     \* the page each handled URL was answered with (None if none)
    b_ret,       \* return value of scrape_multiple_books
    b_pc,        \* "loop", "done" (returned) or "raised" (exception escaped)
    c_variant,   \* which discovery script runs: "url" or "url_scraper"
    max_urls,    \* fetch_goodreads_urls: the target count
    page,        \* current listing page number
    seen_urls,   \* url.py: the set of URLs seen
    c_book_urls, \* the collected URLs (book_urls of fetch_goodreads_urls)
    book_links,  \* detail links of the page being processed
    link_i,      \* position of the for loop over book_links
    new_links,   \* URLs the page being processed has added so far
    requests,    \* listing-page requests issued so far
    zeroAt,      \* request number of the first page that added no URL (0: none)
    stopReason,  \* why the while loop ended
    c_pc,        \* "loop", "links", "endpage", "return", "main", "exit"
    out_file,    \* "none", "written" or "write_failed"
    exit_status, \* exit status of the process (-1 while it runs)
    response,    \* fetch_goodreads_urls: outcome of the latest page request
    file,        \* save_data_to_json: the output file
    file0,       \* the output file before the first call
    calls,       \* the calls made so far: data, file-system behaviour, outcome
    sc_pc,       \* concurrent invocations: "start", "read", "opened", "done", "error"
    sc_data,     \* the data argument of each invocation
    sc_existing, \* existing_data of each invocation
    sc_order,    \* the invocations that wrote, in the order of their writes
    overlap      \* an invocation took a step while the other was under way

fetchVars == <<f_retries, f_stream, f_ret, f_pc>>
parseVars == <<p_page, p_rand, p_ret, p_pc>>
batchVars == <<book_urls, idx, books_data, sleeps, lastSleep, log, kept, fetched,
              b_ret, b_pc>>
crawlVars == <<c_variant, max_urls, page, seen_urls, c_book_urls, book_links, link_i, new_links,
              requests, zeroAt, stopReason, c_pc, out_file, exit_status, response>>
concVars == <<sc_pc, sc_data, sc_existing, sc_order, overlap>>
saveVars == <<file, file0, calls, concVars>>
vars == <<fetchVars, variant, parseVars, batchVars, crawlVars, saveVars>>

(***************************************************************************)
(* Bounds of the model.                                                    *)
(***************************************************************************)
MaxRetries == 3     \* retries arguments 0..MaxRetries
MaxUrls == 3        \* length of the input URL list
MaxTarget == 3      \* max_urls arguments 0..MaxTarget
NumHrefs == 3       \* distinct detail links the site has
MaxLinks == 3       \* detail links on one listing page
MaxPage == 4        \* listing pages requested in one run
MaxCalls == 3       \* save_data_to_json calls on the path
MaxData == 2        \* records in one call's list

(***************************************************************************)
(* Program constants.                                                      *)
(***************************************************************************)
RETRY_COUNT == 3
RATE_LIMIT_DELAY == <<1, 3>>
FALLBACK_IMAGE_scraper == "https://img.freepik.com/premium-photo/crisp-white-watercolor-paper-texture-background_707519-26089.jpg?semt=ais_hybrid&w=740"
FALLBACK_IMAGE_books == "https://via.placeholder.com/150?text=No+Image+Available"

Variants == {"scraper", "books_scraper"}

\* Python's None, and a value wrapped so that it can share a variable with it.
None == [none |-> TRUE]
Some(v) == [none |-> FALSE, val |-> v]

(***************************************************************************)
(* Python helpers.                                                         *)
(***************************************************************************)
RECURSIVE SeqFilter(_, _)
SeqFilter(s, S) ==
    IF s = <<>> THEN <<>>
    ELSE IF Head(s) \in S THEN <<Head(s)>> \o SeqFilter(Tail(s), S)
         ELSE SeqFilter(Tail(s), S)

Range(s) == { s[i] : i \in DOMAIN s }

(***************************************************************************)
(* URLs and is_valid_url.  A URL string is held by the parts urlparse      *)
(* splits it into; a netloc with an unbalanced '[' makes urlparse raise    *)
(* ValueError ("Invalid IPv6 URL").                                        *)
(***************************************************************************)
Url(s, n, p) == [scheme |-> s, netloc |-> n, path |-> p]

GoodUrl(p) == Url("https", "www.goodreads.com", p)   \* "https://www.goodreads.com/book/show/<p>"
RelativeUrl == Url("", "", "book/show/1")             \* "book/show/1"
BracketUrl == Url("http", "[::1", "")                 \* "http://[::1"

urlparse_raises(url) == url.netloc = "[::1"

is_valid_url(url) == url.scheme # "" /\ url.netloc # ""

(***************************************************************************)
(* fetch_url_with_retries.  An outcome of requests.get is a response with  *)
(* a status code or a requests.exceptions.RequestException.                *)
(***************************************************************************)
Exc == [kind |-> "RequestException", status_code |-> 0, body |-> 0]
Response(code, body) == [kind |-> "response", status_code |-> code, body |-> body]

\* fetch_loop without the status test: any response ends the loop
RECURSIVE fetch_loop_nostatus(_, _, _)
fetch_loop_nostatus(stream, retries, a) ==
    IF a >= retries
    THEN [ret |-> None, issued |-> a]
    ELSE LET r == stream[a + 1]
         IN  IF r.kind = "response"
             THEN [ret |-> Some(r), issued |-> a + 1]
             ELSE fetch_loop_nostatus(stream, retries, a + 1)

\* the loop body from attempt number a (0-based) on; issued counts requests
RECURSIVE fetch_loop(_, _, _)
fetch_loop(stream, retries, a) ==
    IF a >= retries
    THEN [ret |-> None, issued |-> a]
    ELSE LET r == stream[a + 1]
         IN  IF r.kind = "response" /\ r.status_code = 200
             THEN [ret |-> Some(r), issued |-> a + 1]
             ELSE fetch_loop(stream, retries, a + 1)

fetch_url_with_retries(stream, retries) == fetch_loop(stream, retries, 0)

(***************************************************************************)
(* A fetched detail page, held by what each soup.find / find_all of the    *)
(* parser matches on it.  An element is Absent or Elem(text).              *)
(***************************************************************************)
Absent == [found |-> FALSE]
Elem(t) == [found |-> TRUE, text |-> t]

\* values that share a field with a value of another Python type
PyInt(n) == [t |-> "int", v |-> n]
PyStr(s) == [t |-> "str", v |-> s]
PyChars(cs) == [t |-> "chars", v |-> cs]      \* a string held character by character
PyDate(y, m, d) == [t |-> "date", v |-> <<y, m, d>>]   \* strftime("%Y-%m-%d")

Digits == {"0", "1", "2", "3", "4", "5", "6", "7", "8", "9"}
DigitVal == [c \in Digits |->
    CASE c = "0" -> 0 [] c = "1" -> 1 [] c = "2" -> 2 [] c = "3" -> 3 [] c = "4" -> 4
      [] c = "5" -> 5 [] c = "6" -> 6 [] c = "7" -> 7 [] c = "8" -> 8 [] c = "9" -> 9]

\* int() of a string of digit characters
RECURSIVE int_of_digits(_)
int_of_digits(ds) ==
    IF ds = <<>> THEN 0
    ELSE 10 * int_of_digits(SubSeq(ds, 1, Len(ds) - 1)) + DigitVal[ds[Len(ds)]]

\* re.sub(r"[^\d]", "", text)
strip_non_digits(text) == SeqFilter(text, Digits)

\* extract_int_from_text raises ValueError when int() gets the empty string
extract_int_raises(text) == text # <<>> /\ strip_non_digits(text) = <<>>

extract_int_from_text(text) ==
    IF text # <<>> THEN int_of_digits(strip_non_digits(text)) ELSE 0

\* float(text) raises ValueError on a text that is not a number
float_raises(text) == text \notin {"4.18", "3.5"}

\* pages text "<n> <word>": re.search(r'(\d+)\s+pages', text, re.IGNORECASE)
PagesText(n, word) == [n |-> n, word |-> word]
pages_match(text) == text.n >= 0 /\ text.word \in {"pages", "Pages", "PAGES"}

\* publication text "<prefix> <month> <day>, <year>"; month 0 is a word that
\* is not a month name, which dateutil's parser rejects
PubText(prefix, m, d, y) == [prefix |-> prefix, m |-> m, d |-> d, y |-> y]

extract_publication_date(pub_tag) ==
    IF ~pub_tag.found THEN PyStr("N/A")
    ELSE LET text == pub_tag.text
         IN  IF text.prefix \notin {"First published", "Published"} THEN PyStr("N/A")
             ELSE IF text.m \notin 1..12 THEN PyStr("N/A")
             ELSE PyDate(text.y, text.m, text.d)

\* extract_isbn: the first small content block whose first token starts with
\* three digits and is at least 10 long, else an ISBN-13 in the raw markup
extract_isbn(soup) ==
    IF soup.isbnDiv.found
       /\ Len(soup.isbnDiv.text) >= 10
       /\ \A i \in 1..3 : soup.isbnDiv.text[i] \in Digits
    THEN PyChars(soup.isbnDiv.text)
    ELSE IF soup.rawIsbn.found THEN PyChars(soup.rawIsbn.text) ELSE PyStr("N/A")

\* text.split('.')[0] + '.' of the basic variant
RECURSIVE first_sentence(_)
first_sentence(text) ==
    IF text = <<>> \/ Head(text) = "." THEN <<".">>
    ELSE <<Head(text)>> \o first_sentence(Tail(text))

Take(s, n) == SubSeq(s, 1, IF Len(s) < n THEN Len(s) ELSE n)

\* x or "N/A" on a string
OrNA(text) == IF text = "" THEN "N/A" ELSE text

(***************************************************************************)
(* scrape_goodreads_book, after the fetch: the try block of scraper.py.    *)
(* Any exception raised inside it is caught and the function returns None. *)
(***************************************************************************)
parse_raises_scraper(soup) ==
    \/ ~soup.bookTitle.found                 \* None.get_text -> AttributeError
    \/ ~soup.ContributorLink.found
    \/ ~soup.contentContainer.found
    \/ soup.rating.found /\ float_raises(soup.rating.text)
    \/ soup.ratingsCount.found /\ extract_int_raises(soup.ratingsCount.text)
    \/ soup.reviewsCount.found /\ extract_int_raises(soup.reviewsCount.text)

parse_scraper(soup, rand) ==
    IF parse_raises_scraper(soup) THEN None
    ELSE Some([
        title |-> OrNA(soup.bookTitle.text),
        authorName |-> OrNA(soup.ContributorLink.text),
        description |-> OrNA(soup.contentContainer.text),
        isbn |-> extract_isbn(soup),
        publication |-> extract_publication_date(soup.publicationInfo),
        pages |-> IF soup.pagesFormat.found /\ pages_match(soup.pagesFormat.text)
                  THEN PyInt(soup.pagesFormat.text.n) ELSE PyStr("N/A"),
        category |-> IF soup.genresList.found THEN soup.genresList.text ELSE <<"General">>,
        likes |-> rand.likes,
        averageRating |-> IF soup.rating.found THEN soup.rating.text ELSE "0.0",
        totalRating |-> IF soup.ratingsCount.found
                        THEN extract_int_from_text(soup.ratingsCount.text) ELSE 0,
        totalReview |-> IF soup.reviewsCount.found
                        THEN extract_int_from_text(soup.reviewsCount.text) ELSE 0,
        price |-> rand.price * 1000,
        stock |-> rand.stock,
        imageURL |-> IF soup.ResponsiveImage.found
                     THEN soup.ResponsiveImage.text ELSE FALLBACK_IMAGE_scraper ])

(***************************************************************************)
(* The same try block in books_scraper.py.                                 *)
(***************************************************************************)
parse_raises_books(soup) ==
    \/ ~soup.bookTitle.found
    \/ ~soup.ContributorLink.found
    \/ soup.rating.found /\ float_raises(soup.rating.text)

parse_books(soup, rand) ==
    IF parse_raises_books(soup) THEN None
    ELSE Some([
        title |-> OrNA(soup.bookTitle.text),
        authorName |-> OrNA(soup.ContributorLink.text),
        imageURL |-> IF soup.ResponsiveImage.found
                     THEN soup.ResponsiveImage.text ELSE FALLBACK_IMAGE_books,
        description |-> IF soup.description.found /\ "." \in Range(soup.description.text)
                        THEN first_sentence(soup.description.text)
                        ELSE <<"No description available.">>,
        category |-> IF soup.genresList.found THEN Take(soup.genresList.text, 2)
                     ELSE <<"General">>,
        price |-> rand.price * 1000,
        likes |-> rand.likes,
        stock |-> rand.stock,
        averageRating |-> IF soup.rating.found THEN soup.rating.text ELSE "0.0" ])

parse_page(v, soup, rand) ==
    IF v = "scraper" THEN parse_scraper(soup, rand) ELSE parse_books(soup, rand)

\* random.randint(10, 200), random.randint(1, 100), random.randint(1, 10)
RandDraws == { [price |-> 10, likes |-> 1, stock |-> 1],
               [price |-> 200, likes |-> 100, stock |-> 10] }

(***************************************************************************)
(* remove_duplicates: the loop over data with the set of seen titles.      *)
(***************************************************************************)
\* remove_duplicates_loop that never records a title as seen
RECURSIVE remove_duplicates_loop_noseen(_, _, _, _)
remove_duplicates_loop_noseen(data, i, seen, unique_books) ==
    IF i > Len(data) THEN unique_books
    ELSE IF data[i].title \notin seen
         THEN remove_duplicates_loop_noseen(data, i + 1, seen, Append(unique_books, data[i]))
         ELSE remove_duplicates_loop_noseen(data, i + 1, seen, unique_books)

RECURSIVE remove_duplicates_loop(_, _, _, _)
remove_duplicates_loop(data, i, seen, unique_books) ==
    IF i > Len(data) THEN unique_books
    ELSE IF data[i].title \notin seen
         THEN remove_duplicates_loop(data, i + 1, seen \cup {data[i].title},
                                     Append(unique_books, data[i]))
         ELSE remove_duplicates_loop(data, i + 1, seen, unique_books)

remove_duplicates(data) == remove_duplicates_loop(data, 1, {}, <<>>)

(***************************************************************************)
(* Inputs of the model.                                                    *)
(***************************************************************************)
Isbn13 == <<"9", "7", "8", "0", "3", "9", "3", "3", "5", "5", "9", "4", "9">>
GenreLabels == <<"Fiction", "Classics", "Thriller">>
RatingsText == <<"6", "2", "5", ",", "0", "5", "8", " ", "r">>   \* "625,058 r(atings)"
ReviewsText == <<"2", "5", " ", "r">>
NoDigitText == <<"r">>
DescTokens == <<"Chuck", ".", "He">>   \* two sentences
NoDotTokens == <<"Chuck">>

EmptyPage == [
    bookTitle |-> Absent, ContributorLink |-> Absent, pagesFormat |-> Absent,
    publicationInfo |-> Absent, ResponsiveImage |-> Absent, contentContainer |-> Absent,
    isbnDiv |-> Absent, rawIsbn |-> Absent, genresList |-> Absent, rating |-> Absent,
    ratingsCount |-> Absent, reviewsCount |-> Absent, description |-> Absent ]

FullPage(title, author) == [
    bookTitle |-> Elem(title), ContributorLink |-> Elem(author),
    pagesFormat |-> Elem(PagesText(224, "pages")),
    publicationInfo |-> Elem(PubText("First published", 8, 17, 1996)),
    ResponsiveImage |-> Elem("https://images/36236124.jpg"),
    contentContainer |-> Elem("Chuck Palahniuk showed himself"),
    isbnDiv |-> Elem(Isbn13), rawIsbn |-> Elem(Isbn13),
    genresList |-> Elem(GenreLabels), rating |-> Elem("4.18"),
    ratingsCount |-> Elem(RatingsText), reviewsCount |-> Elem(ReviewsText),
    description |-> Elem(DescTokens) ]

\* every page the parser is tried on
ParsePages ==
    { pg \in [ bookTitle : {Absent, Elem(""), Elem("T1")},
               ContributorLink : {Absent, Elem("A1")},
               pagesFormat : {Absent, Elem(PagesText(224, "pages"))},
               publicationInfo : {Absent, Elem(PubText("First published", 8, 17, 1996))},
               ResponsiveImage : {Absent, Elem("https://images/36236124.jpg")},
               contentContainer : {Absent, Elem(""), Elem("Chuck Palahniuk showed himself")},
               isbnDiv : {Absent, Elem(Isbn13)},
               rawIsbn : {Absent, Elem(Isbn13)},
               genresList : {Absent, Elem(GenreLabels)},
               rating : {Absent, Elem("4.18"), Elem("n/a")},
               ratingsCount : {Absent, Elem(RatingsText), Elem(NoDigitText)},
               reviewsCount : {Absent, Elem(ReviewsText)},
               description : {Absent, Elem(DescTokens), Elem(NoDotTokens)} ] :
      \* the small content blocks are content containers themselves, and
      \* their text is part of the raw markup
      /\ pg.isbnDiv.found => pg.contentContainer.found /\ pg.rawIsbn.found }

\* the pages the batch is run on
BatchPages == {
    FullPage("T1", "A1"),
    FullPage("T1", "A2"),
    FullPage("T2", "A1"),
    [FullPage("T2", "A2") EXCEPT !.contentContainer = Absent, !.isbnDiv = Absent],
    [FullPage("T1", "A1") EXCEPT !.bookTitle = Absent],
    [FullPage("T1", "A1") EXCEPT !.ContributorLink = Absent] }

FetchOutcomes == { Exc, Response(200, EmptyPage), Response(204, EmptyPage),
                   Response(404, EmptyPage) }

BatchFailures == { Exc, Response(204, EmptyPage), Response(503, EmptyPage) }

\* what the site answers to the successive requests for one URL: n failed
\* attempts of one kind, then the page
BatchStreams ==
    { [a \in 1..RETRY_COUNT |-> IF a <= n THEN fl ELSE Response(200, pg)] :
        n \in 0..RETRY_COUNT, fl \in BatchFailures, pg \in BatchPages }

BatchUrls == { GoodUrl("/book/show/1"), RelativeUrl, BracketUrl }

UrlLists == UNION { [1..n -> BatchUrls] : n \in 0..MaxUrls }

\* random.uniform(*RATE_LIMIT_DELAY), in whole seconds
Delays == RATE_LIMIT_DELAY[1] .. RATE_LIMIT_DELAY[2]

\* no listing page requested yet
NoResponse == [kind |-> "none", status_code |-> 0, links |-> <<>>]

\* href of the n-th detail link is "/book/show/<n>"
Hrefs == 1..NumHrefs
\* "https://www.goodreads.com" + tag['href']
FullUrl(href) == <<"https://www.goodreads.com", href>>
\* the detail links a listing page can hold, in document order
LinkLists == UNION { [1..n -> Hrefs] : n \in 0..MaxLinks }

\* a JSON text, piece by piece: a one-byte token, an object, a run of
\* white space, or what an overwrite left of an object
Tok(c) == [tok |-> c]
Obj(r) == [tok |-> "obj", obj |-> r]
Ws(n) == [tok |-> "ws", width |-> n]
Frag(n) == [tok |-> "frag", width |-> n]
SaveRecords == { [title |-> "T1"], [title |-> "T2"] }
DataLists == UNION { [1..n -> SaveRecords] : n \in 0..MaxData }

AbsentFile == [exists |-> FALSE, text |-> <<>>]
FileWith(text) == [exists |-> TRUE, text |-> text]

(***************************************************************************)
(* Initial states: each specification starts its own sub-system and leaves *)
(* the others idle.                                                        *)
(***************************************************************************)
FetchIdle ==
    /\ f_retries = 0 /\ f_stream = <<>> /\ f_pc = "idle"
    /\ f_ret = [ret |-> None, issued |-> 0]

ParseIdle ==
    /\ p_page = EmptyPage /\ p_rand = [price |-> 10, likes |-> 1, stock |-> 1]
    /\ p_ret = None /\ p_pc = "idle"

BatchIdle ==
    /\ book_urls = <<>> /\ idx = 1 /\ books_data = <<>> /\ sleeps = 0 /\ lastSleep = 0
    /\ log = <<>> /\ kept = <<>> /\ fetched = <<>> /\ b_ret = None /\ b_pc = "idle"

CrawlIdle ==
    /\ c_variant = "url" /\ max_urls = 0 /\ page = 1 /\ seen_urls = {} /\ c_book_urls = <<>>
    /\ book_links = <<>> /\ link_i = 0 /\ new_links = 0 /\ requests = 0 /\ zeroAt = 0
    /\ stopReason = "none" /\ c_pc = "idle" /\ out_file = "none" /\ exit_status = -1
    /\ response = NoResponse

\* the two invocations of save_data_to_json that share the path
Procs == {1, 2}

ConcIdle ==
    /\ sc_pc = [p \in Procs |-> "idle"] /\ sc_data = [p \in Procs |-> <<>>]
    /\ sc_existing = [p \in Procs |-> <<>>] /\ sc_order = <<>> /\ overlap = FALSE

SaveIdle == file = AbsentFile /\ file0 = AbsentFile /\ calls = <<>> /\ ConcIdle

InitFetch ==
    /\ f_retries \in 0..MaxRetries
    /\ f_stream \in [1..MaxRetries -> FetchOutcomes]
    /\ f_ret = [ret |-> None, issued |-> 0]
    /\ f_pc = "call"
    /\ variant = "scraper" /\ ParseIdle /\ BatchIdle /\ CrawlIdle /\ SaveIdle

InitParse ==
    /\ variant \in Variants
    /\ p_page \in ParsePages
    /\ p_rand \in RandDraws
    /\ p_ret = None
    /\ p_pc = "call"
    /\ FetchIdle /\ BatchIdle /\ CrawlIdle /\ SaveIdle

InitBatch ==
    /\ variant \in Variants
    /\ book_urls \in UrlLists
    /\ idx = 1 /\ books_data = <<>> /\ sleeps = 0 /\ lastSleep = 0
    /\ log = <<>> /\ kept = <<>> /\ fetched = <<>> /\ b_ret = None /\ b_pc = "loop"
    /\ FetchIdle /\ ParseIdle /\ CrawlIdle /\ SaveIdle

(***************************************************************************)
(* Actions.                                                                *)
(***************************************************************************)
\* one call of fetch_url_with_retries(url, f_retries)
FetchCall ==
    /\ f_pc = "call"
    /\ f_ret' = fetch_url_with_retries(f_stream, f_retries)
    /\ f_pc' = "done"
    /\ UNCHANGED <<f_retries, f_stream, variant, parseVars, batchVars, crawlVars, saveVars>>

\* the parsing part of scrape_goodreads_book on a fetched page
ParseCall ==
    /\ p_pc = "call"
    /\ p_ret' = parse_page(variant, p_page, p_rand)
    /\ p_pc' = "done"
    /\ UNCHANGED <<p_page, p_rand, variant, fetchVars, batchVars, crawlVars, saveVars>>

\* scrape_goodreads_book whose except branch returns a record of fallbacks
scrape_goodreads_book_fallback(v, stream, rand) ==
    LET f == fetch_url_with_retries(stream, RETRY_COUNT)
    IN  IF f.ret.none THEN None
        ELSE LET r == parse_page(v, f.ret.val.body, rand)
             IN  IF r.none THEN Some([title |-> "N/A", authorName |-> "N/A"]) ELSE r

\* scrape_goodreads_book(url): fetch with retries, then parse
scrape_goodreads_book(v, stream, rand) ==
    LET f == fetch_url_with_retries(stream, RETRY_COUNT)
    IN  IF f.ret.none THEN None ELSE parse_page(v, f.ret.val.body, rand)

\* after_scrape with the sleep moved inside the `if book_data:` branch
after_scrape_sleep_in_if(book_data, books, n) ==
    [ books_data |-> IF book_data.none THEN books ELSE Append(books, book_data.val),
      sleeps |-> IF book_data.none THEN n ELSE n + 1 ]

\* the rest of an iteration on a valid URL: append if a record came back,
\* then time.sleep
after_scrape(book_data, books, n) ==
    [ books_data |-> IF book_data.none THEN books ELSE Append(books, book_data.val),
      sleeps |-> n + 1 ]

\* scrape_multiple_books, one iteration: is_valid_url raises
ValidatorRaises ==
    /\ b_pc = "loop" /\ idx <= Len(book_urls)
    /\ urlparse_raises(book_urls[idx])
    /\ b_pc' = "raised"
    /\ log' = Append(log, "raised")
    /\ UNCHANGED <<book_urls, idx, books_data, sleeps, lastSleep, kept, fetched, b_ret>>
    /\ UNCHANGED <<variant, fetchVars, parseVars, crawlVars, saveVars>>

\* one iteration: the URL is not valid, `continue`
SkipInvalid ==
    /\ b_pc = "loop" /\ idx <= Len(book_urls)
    /\ ~urlparse_raises(book_urls[idx])
    /\ ~is_valid_url(book_urls[idx])
    /\ idx' = idx + 1
    /\ log' = Append(log, "invalid")
    /\ kept' = Append(kept, None)
    /\ fetched' = Append(fetched, None)
    /\ UNCHANGED <<book_urls, books_data, sleeps, lastSleep, b_ret, b_pc>>
    /\ UNCHANGED <<variant, fetchVars, parseVars, crawlVars, saveVars>>

\* one iteration on a valid URL: scrape, accumulate, sleep
ScrapeUrl ==
    /\ b_pc = "loop" /\ idx <= Len(book_urls)
    /\ ~urlparse_raises(book_urls[idx])
    /\ is_valid_url(book_urls[idx])
    /\ \E stream \in BatchStreams, rand \in RandDraws, d \in Delays :
         LET f == fetch_url_with_retries(stream, RETRY_COUNT)
             book_data == scrape_goodreads_book(variant, stream, rand)
             after == after_scrape(book_data, books_data, sleeps)
         IN  /\ books_data' = after.books_data
             /\ sleeps' = after.sleeps
             /\ kept' = Append(kept, book_data)
             /\ fetched' = Append(fetched, IF f.ret.none THEN None ELSE Some(f.ret.val.body))
             /\ log' = Append(log, IF f.ret.none THEN "fetch_failed"
                                   ELSE IF book_data.none THEN "parse_failed" ELSE "record")
             /\ lastSleep' = d
    /\ idx' = idx + 1
    /\ UNCHANGED <<book_urls, b_ret, b_pc>>
    /\ UNCHANGED <<variant, fetchVars, parseVars, crawlVars, saveVars>>

\* the loop is over: return remove_duplicates(books_data)
BatchReturn ==
    /\ b_pc = "loop" /\ idx > Len(book_urls)
    /\ b_ret' = Some(remove_duplicates(books_data))
    /\ b_pc' = "done"
    /\ UNCHANGED <<book_urls, idx, books_data, sleeps, lastSleep, log, kept, fetched>>
    /\ UNCHANGED <<variant, fetchVars, parseVars, crawlVars, saveVars>>

(***************************************************************************)
(* fetch_goodreads_urls and the main of the discovery scripts.             *)
(***************************************************************************)
ListingExc == [kind |-> "RequestException", status_code |-> 0, links |-> <<>>]
Listing(code, links) == [kind |-> "response", status_code |-> code, links |-> links]

ListingOutcomes == { ListingExc, Listing(404, <<>>), Listing(204, <<>>) }
                   \cup { Listing(200, ls) : ls \in LinkLists }

\* url.py: requests.get raised or raise_for_status did (status 400..599);
\* url_scraper.py: status_code != 200 (its try has nothing else to catch here)
listing_fetch_failed(v, o) ==
    IF o.kind # "response" THEN TRUE
    ELSE IF v = "url" THEN o.status_code >= 400 ELSE o.status_code # 200

\* already_collected without the membership test
already_collected_never(v, full_url, seen, urls) == FALSE

\* url.py tests the set seen_urls, url_scraper.py the list itself
already_collected(v, full_url, seen, urls) ==
    IF v = "url" THEN full_url \in seen ELSE full_url \in Range(urls)

InitCrawl ==
    /\ c_variant \in {"url", "url_scraper"}
    /\ max_urls \in 0..MaxTarget
    /\ page = 1 /\ seen_urls = {} /\ c_book_urls = <<>>
    /\ book_links = <<>> /\ link_i = 0 /\ new_links = 0 /\ requests = 0 /\ zeroAt = 0
    /\ stopReason = "none" /\ c_pc = "loop" /\ out_file = "none" /\ exit_status = -1
    /\ response = NoResponse
    /\ variant = "scraper" /\ FetchIdle /\ ParseIdle /\ BatchIdle /\ SaveIdle

crawlRest == <<variant, fetchVars, parseVars, batchVars, saveVars>>

\* while len(book_urls) < max_urls: false, the loop is over
CrawlLoopExit ==
    /\ c_pc = "loop"
    /\ ~(Len(c_book_urls) < max_urls)
    /\ stopReason' = "target"
    /\ c_pc' = "return"
    /\ UNCHANGED <<c_variant, max_urls, page, seen_urls, c_book_urls, book_links, link_i,
                   new_links, requests, zeroAt, out_file, exit_status>>
    /\ UNCHANGED response
    /\ UNCHANGED crawlRest

\* CrawlRequest with `continue` in place of `break` after a failed fetch
CrawlRequest_continue ==
    /\ c_pc = "loop"
    /\ Len(c_book_urls) < max_urls
    /\ page <= MaxPage
    /\ requests' = requests + 1
    /\ \E o \in ListingOutcomes :
         /\ response' = o
         /\ IF listing_fetch_failed(c_variant, o)
            THEN /\ stopReason' = "fetch_failed" /\ c_pc' = "loop"
                 /\ UNCHANGED <<book_links, link_i, new_links, zeroAt>>
            ELSE IF o.links = <<>>
            THEN /\ stopReason' = "no_links" /\ c_pc' = "return"
                 /\ zeroAt' = IF zeroAt = 0 THEN requests + 1 ELSE zeroAt
                 /\ book_links' = o.links
                 /\ UNCHANGED <<link_i, new_links>>
            ELSE /\ book_links' = o.links /\ link_i' = 1 /\ new_links' = 0
                 /\ c_pc' = "links"
                 /\ UNCHANGED <<stopReason, zeroAt>>
    /\ UNCHANGED <<c_variant, max_urls, page, seen_urls, c_book_urls, out_file, exit_status>>
    /\ UNCHANGED crawlRest

\* one pass of the while body up to the for loop: request the page, break
\* on a failed fetch or on a page without detail links
CrawlRequest ==
    /\ c_pc = "loop"
    /\ Len(c_book_urls) < max_urls
    /\ page <= MaxPage
    /\ requests' = requests + 1
    /\ \E o \in ListingOutcomes :
         /\ response' = o
         /\ IF listing_fetch_failed(c_variant, o)
            THEN /\ stopReason' = "fetch_failed" /\ c_pc' = "return"
                 /\ UNCHANGED <<book_links, link_i, new_links, zeroAt>>
            ELSE IF o.links = <<>>
            THEN /\ stopReason' = "no_links" /\ c_pc' = "return"
                 /\ zeroAt' = IF zeroAt = 0 THEN requests + 1 ELSE zeroAt
                 /\ book_links' = o.links
                 /\ UNCHANGED <<link_i, new_links>>
            ELSE /\ book_links' = o.links /\ link_i' = 1 /\ new_links' = 0
                 /\ c_pc' = "links"
                 /\ UNCHANGED <<stopReason, zeroAt>>
    /\ UNCHANGED <<c_variant, max_urls, page, seen_urls, c_book_urls, out_file, exit_status>>
    /\ UNCHANGED crawlRest

\* one pass of the for loop over book_links
CrawlLink ==
    /\ c_pc = "links"
    /\ link_i <= Len(book_links)
    /\ LET full_url == FullUrl(book_links[link_i])
       IN  IF ~already_collected(c_variant, full_url, seen_urls, c_book_urls)
           THEN /\ seen_urls' = IF c_variant = "url" THEN seen_urls \cup {full_url}
                                ELSE seen_urls
                /\ c_book_urls' = Append(c_book_urls, full_url)
                /\ new_links' = new_links + 1
                /\ IF Len(c_book_urls) + 1 >= max_urls
                   THEN c_pc' = "endpage" /\ link_i' = link_i
                   ELSE c_pc' = "links" /\ link_i' = link_i + 1
           ELSE /\ link_i' = link_i + 1
                /\ UNCHANGED <<seen_urls, c_book_urls, new_links, c_pc>>
    /\ UNCHANGED <<c_variant, max_urls, page, book_links, requests, zeroAt, stopReason,
                   out_file, exit_status>>
    /\ UNCHANGED response
    /\ UNCHANGED crawlRest

\* after the for loop: page += 1, time.sleep(delay), back to the while test
CrawlEndPage ==
    /\ \/ c_pc = "endpage"
       \/ c_pc = "links" /\ link_i > Len(book_links)
    /\ page' = page + 1
    /\ zeroAt' = IF new_links = 0 /\ zeroAt = 0 THEN requests ELSE zeroAt
    /\ c_pc' = "loop"
    /\ UNCHANGED <<c_variant, max_urls, seen_urls, c_book_urls, book_links, link_i, new_links,
                   requests, stopReason, out_file, exit_status>>
    /\ UNCHANGED response
    /\ UNCHANGED crawlRest

\* return book_urls
CrawlReturn ==
    /\ c_pc = "return"
    /\ c_pc' = "main"
    /\ UNCHANGED <<c_variant, max_urls, page, seen_urls, c_book_urls, book_links, link_i,
                   new_links, requests, zeroAt, stopReason, out_file, exit_status>>
    /\ UNCHANGED response
    /\ UNCHANGED crawlRest

\* url.py saves only a non-empty list; url_scraper.py always saves
main_saves(v, urls) == IF v = "url" THEN urls # <<>> ELSE TRUE

\* url.py: sys.exit(1) in the except branch; url_scraper.py: print only
exit_status_on_write_failure(v) == IF v = "url" THEN 1 ELSE 0

\* main: nothing to save
MainNoUrls ==
    /\ c_pc = "main"
    /\ ~main_saves(c_variant, c_book_urls)
    /\ exit_status' = 0 /\ c_pc' = "exit"
    /\ UNCHANGED <<c_variant, max_urls, page, seen_urls, c_book_urls, book_links, link_i,
                   new_links, requests, zeroAt, stopReason, out_file>>
    /\ UNCHANGED response
    /\ UNCHANGED crawlRest

\* main: the output file is written
MainSaveOk ==
    /\ c_pc = "main"
    /\ main_saves(c_variant, c_book_urls)
    /\ out_file' = "written"
    /\ exit_status' = 0 /\ c_pc' = "exit"
    /\ UNCHANGED <<c_variant, max_urls, page, seen_urls, c_book_urls, book_links, link_i,
                   new_links, requests, zeroAt, stopReason>>
    /\ UNCHANGED response
    /\ UNCHANGED crawlRest

\* main: open or write raises
MainSaveFails ==
    /\ c_pc = "main"
    /\ main_saves(c_variant, c_book_urls)
    /\ out_file' = "write_failed"
    /\ exit_status' = exit_status_on_write_failure(c_variant)
    /\ c_pc' = "exit"
    /\ UNCHANGED <<c_variant, max_urls, page, seen_urls, c_book_urls, book_links, link_i,
                   new_links, requests, zeroAt, stopReason>>
    /\ UNCHANGED response
    /\ UNCHANGED crawlRest

NextCrawl == CrawlLoopExit \/ CrawlRequest \/ CrawlLink \/ CrawlEndPage \/ CrawlReturn
             \/ MainNoUrls \/ MainSaveOk \/ MainSaveFails

SpecCrawl == InitCrawl /\ [][NextCrawl]_vars

(***************************************************************************)
(* The crawl without a cap on the number of passes, for termination.  No   *)
(* step of the loop reads the value of page or of requests (the response   *)
(* to a request is any listing outcome, whatever the page number), so the  *)
(* two counters stop counting at MaxPage and the state space stays finite  *)
(* while the loop may go round for ever.  The process is sequential and    *)
(* every request returns or fails, so a step that can be taken is taken.   *)
(***************************************************************************)
upto_MaxPage(n) == IF n < MaxPage THEN n + 1 ELSE n

\* the pass of CrawlRequest, at any page number
CrawlRequestLive ==
    /\ c_pc = "loop"
    /\ Len(c_book_urls) < max_urls
    /\ requests' = upto_MaxPage(requests)
    /\ \E o \in ListingOutcomes :
         /\ response' = o
         /\ IF listing_fetch_failed(c_variant, o)
            THEN /\ stopReason' = "fetch_failed" /\ c_pc' = "return"
                 /\ UNCHANGED <<book_links, link_i, new_links, zeroAt>>
            ELSE IF o.links = <<>>
            THEN /\ stopReason' = "no_links" /\ c_pc' = "return"
                 /\ zeroAt' = IF zeroAt = 0 THEN upto_MaxPage(requests) ELSE zeroAt
                 /\ book_links' = o.links
                 /\ UNCHANGED <<link_i, new_links>>
            ELSE /\ book_links' = o.links /\ link_i' = 1 /\ new_links' = 0
                 /\ c_pc' = "links"
                 /\ UNCHANGED <<stopReason, zeroAt>>
    /\ UNCHANGED <<c_variant, max_urls, page, seen_urls, c_book_urls, out_file, exit_status>>
    /\ UNCHANGED crawlRest

\* the step of CrawlEndPage, at any page number
CrawlEndPageLive ==
    /\ \/ c_pc = "endpage"
       \/ c_pc = "links" /\ link_i > Len(book_links)
    /\ page' = upto_MaxPage(page)
    /\ zeroAt' = IF new_links = 0 /\ zeroAt = 0 THEN requests ELSE zeroAt
    /\ c_pc' = "loop"
    /\ UNCHANGED <<c_variant, max_urls, seen_urls, c_book_urls, book_links, link_i, new_links,
                   requests, stopReason, out_file, exit_status>>
    /\ UNCHANGED response
    /\ UNCHANGED crawlRest

NextCrawlLive == CrawlLoopExit \/ CrawlRequestLive \/ CrawlLink \/ CrawlEndPageLive
                 \/ CrawlReturn

SpecCrawlLive == InitCrawl /\ [][NextCrawlLive]_vars /\ WF_vars(NextCrawlLive)

(***************************************************************************)
(* save_data_to_json.  The file holds a JSON text, piece by piece, laid    *)
(* out as json.dump(..., indent=4) lays it out: "[]" for the empty list,   *)
(* else "[", then per item a line break, four spaces and the object, items *)
(* separated by ",", then a line break and "]".                            *)
(***************************************************************************)
\* the bytes of an object: {\n        "title": "T1"\n    } (the titles of
\* SaveRecords have two characters)
ObjWidth(r) == 29

\* the bytes of a piece of text
Width(u) ==
    IF u.tok \in {"ws", "frag"} THEN u.width
    ELSE IF u.tok = "obj" THEN ObjWidth(u.obj) ELSE 1

RECURSIVE ByteLen(_)
ByteLen(text) == IF text = <<>> THEN 0 ELSE Width(Head(text)) + ByteLen(Tail(text))

RECURSIVE dump_items(_)
dump_items(list) ==
    IF list = <<>> THEN <<>>
    ELSE IF Len(list) = 1 THEN <<Ws(5), Obj(list[1]), Ws(1)>>
    ELSE <<Ws(5), Obj(list[1]), Tok(",")>> \o dump_items(Tail(list))

\* json.dump(list, file, indent=4)
json_dump(list) == <<Tok("[")>> \o dump_items(list) \o <<Tok("]")>>

\* the decoder skips white space between tokens
skip_whitespace(text) == SelectSeq(text, LAMBDA u : u.tok # "ws")

\* the array items from token i on; None on a text that is not a JSON array
RECURSIVE load_items(_, _, _)
load_items(text, i, acc) ==
    IF text[i].tok # "obj" THEN None
    ELSE IF i + 1 = Len(text) THEN Some(Append(acc, text[i].obj))
    ELSE IF text[i + 1].tok # "," \/ i + 2 >= Len(text) THEN None
    ELSE load_items(text, i + 2, Append(acc, text[i].obj))

\* the array a sequence of tokens spells
decode_array(toks) ==
    IF Len(toks) < 2 \/ toks[1].tok # "[" \/ toks[Len(toks)].tok # "]" THEN None
    ELSE IF Len(toks) = 2 THEN Some(<<>>)
    ELSE load_items(toks, 2, <<>>)

\* json.load: None stands for json.JSONDecodeError
json_load(text) == decode_array(skip_whitespace(text))

\* what the file system does to one call
IoOutcomes == {"ok", "read_error", "open_error", "dump_error"}

\* save_data_to_json that takes a file it cannot decode for an empty array
save_data_to_json_malformed_as_empty(f, data, io) ==
    IF f.exists /\ io = "read_error" THEN [file |-> f, outcome |-> "error"]
    ELSE LET existing_data == IF f.exists /\ ~json_load(f.text).none
                              THEN json_load(f.text).val ELSE <<>>
             updated_data == existing_data \o data
         IN  IF io = "open_error" THEN [file |-> f, outcome |-> "error"]
             ELSE IF io = "dump_error" THEN [file |-> FileWith(<<>>), outcome |-> "error"]
             ELSE [file |-> FileWith(json_dump(updated_data)), outcome |-> "saved"]

\* save_data_to_json that writes the new records only
save_data_to_json_overwrite(f, data, io) ==
    IF f.exists /\ io = "read_error" THEN [file |-> f, outcome |-> "error"]
    ELSE IF f.exists /\ json_load(f.text).none THEN [file |-> f, outcome |-> "error"]
    ELSE IF io = "open_error" THEN [file |-> f, outcome |-> "error"]
    ELSE IF io = "dump_error" THEN [file |-> FileWith(<<>>), outcome |-> "error"]
    ELSE [file |-> FileWith(json_dump(data)), outcome |-> "saved"]

\* save_data_to_json(data, filename) on file f: the new file and whether
\* the call saved or logged an error
save_data_to_json(f, data, io) ==
    IF f.exists /\ io = "read_error"             \* open(filename, "r") raises OSError
    THEN [file |-> f, outcome |-> "error"]
    ELSE IF f.exists /\ json_load(f.text).none   \* json.load raises
    THEN [file |-> f, outcome |-> "error"]
    ELSE LET existing_data == IF f.exists THEN json_load(f.text).val ELSE <<>>
             updated_data == existing_data \o data
         IN  IF io = "open_error"                \* open(filename, "w") raises
             THEN [file |-> f, outcome |-> "error"]
             ELSE IF io = "dump_error"           \* the file was truncated by open
             THEN [file |-> FileWith(<<>>), outcome |-> "error"]
             ELSE [file |-> FileWith(json_dump(updated_data)), outcome |-> "saved"]

InitSave ==
    /\ file \in {AbsentFile, FileWith(<<Tok("[")>>)}
    /\ file0 = file
    /\ calls = <<>>
    /\ variant \in Variants
    /\ FetchIdle /\ ParseIdle /\ BatchIdle /\ CrawlIdle /\ ConcIdle

\* one call of save_data_to_json on the path
SaveCall ==
    /\ Len(calls) < MaxCalls
    /\ \E data \in DataLists, io \in IoOutcomes :
         LET r == save_data_to_json(file, data, io)
         IN  /\ file' = r.file
             /\ calls' = Append(calls, [data |-> data, io |-> io, outcome |-> r.outcome])
    /\ UNCHANGED <<file0, variant, fetchVars, parseVars, batchVars, crawlVars, concVars>>

NextSave == SaveCall

SpecSave == InitSave /\ [][NextSave]_vars

(***************************************************************************)
(* Two invocations of save_data_to_json on the same path, step by step:    *)
(* the read, the open for writing (which truncates), and the write of the  *)
(* dumped text at the start of the file when the handle is closed.         *)
(***************************************************************************)
\* updated_data without the existing entries
updated_data_new_only(existing_data, data) == data

\* updated_data = existing_data + data
updated_data(existing_data, data) == existing_data \o data

\* what is left of a piece of text whose last n bytes survive an overwrite
rest_of(u, n) == IF u.tok = "ws" THEN Ws(n) ELSE Frag(n)

\* text without its first n bytes
RECURSIVE drop_bytes(_, _)
drop_bytes(text, n) ==
    IF n = 0 \/ text = <<>> THEN text
    ELSE IF Width(Head(text)) <= n THEN drop_bytes(Tail(text), n - Width(Head(text)))
    ELSE <<rest_of(Head(text), Width(Head(text)) - n)>> \o Tail(text)

\* a write of text at offset 0 of a file that holds old: the bytes of old
\* beyond the length of text stay
Overlay(old, text) == text \o drop_bytes(old, ByteLen(text))

Other(p) == CHOOSE q \in Procs : q # p
UnderWay(p) == sc_pc[p] \in {"read", "opened"}

InitConc ==
    /\ file \in {AbsentFile, FileWith(json_dump(<<[title |-> "T1"]>>))}
    /\ file0 = file
    /\ calls = <<>>
    /\ sc_pc = [p \in Procs |-> "start"]
    /\ sc_data \in [Procs -> DataLists]
    /\ sc_existing = [p \in Procs |-> <<>>]
    /\ sc_order = <<>>
    /\ overlap = FALSE
    /\ variant \in Variants
    /\ FetchIdle /\ ParseIdle /\ BatchIdle /\ CrawlIdle

concRest == <<file0, calls, sc_data, variant, fetchVars, parseVars, batchVars, crawlVars>>

\* open(filename, "r") and json.load, or FileNotFoundError
ConcRead(p) ==
    /\ sc_pc[p] = "start"
    /\ IF ~file.exists
       THEN /\ sc_existing' = [sc_existing EXCEPT ![p] = <<>>]
            /\ sc_pc' = [sc_pc EXCEPT ![p] = "read"]
       ELSE IF json_load(file.text).none
       THEN /\ sc_pc' = [sc_pc EXCEPT ![p] = "error"]
            /\ UNCHANGED sc_existing
       ELSE /\ sc_existing' = [sc_existing EXCEPT ![p] = json_load(file.text).val]
            /\ sc_pc' = [sc_pc EXCEPT ![p] = "read"]
    /\ overlap' = (overlap \/ UnderWay(Other(p)))
    /\ UNCHANGED <<file, sc_order>>
    /\ UNCHANGED concRest

\* open(filename, "w")
ConcOpen(p) ==
    /\ sc_pc[p] = "read"
    /\ file' = FileWith(<<>>)
    /\ sc_pc' = [sc_pc EXCEPT ![p] = "opened"]
    /\ overlap' = (overlap \/ UnderWay(Other(p)))
    /\ UNCHANGED <<sc_existing, sc_order>>
    /\ UNCHANGED concRest

\* json.dump(updated_data, file) and the close of the handle
ConcDump(p) ==
    /\ sc_pc[p] = "opened"
    /\ file' = FileWith(Overlay(file.text,
                                json_dump(updated_data(sc_existing[p], sc_data[p]))))
    /\ sc_pc' = [sc_pc EXCEPT ![p] = "done"]
    /\ sc_order' = Append(sc_order, p)
    /\ overlap' = (overlap \/ UnderWay(Other(p)))
    /\ UNCHANGED sc_existing
    /\ UNCHANGED concRest

NextConc == \E p \in Procs : ConcRead(p) \/ ConcOpen(p) \/ ConcDump(p)

SpecSaveConc == InitConc /\ [][NextConc]_vars

NextFetch == FetchCall
NextParse == ParseCall
NextBatch == ValidatorRaises \/ SkipInvalid \/ ScrapeUrl \/ BatchReturn

SpecFetch == InitFetch /\ [][NextFetch]_vars
SpecParse == InitParse /\ [][NextParse]_vars
SpecBatch == InitBatch /\ [][NextBatch]_vars

(***************************************************************************)
(* Properties.                                                             *)
(***************************************************************************)
Returned == b_pc = "done"

\* the URL positions that produced a record with title t
Producers(t) == { k \in DOMAIN kept : ~kept[k].none /\ kept[k].val.title = t }
Min(S) == CHOOSE m \in S : \A n \in S : m <= n
FirstUrl(t) == Min(Producers(t))
Titles == { kept[k].val.title : k \in { j \in DOMAIN kept : ~kept[j].none } }

\* C1: the sequence scrape_multiple_books returns has no two records with
\* the same title, holds for each title the record of the earliest URL that
\* yielded it, and lists them in the order of those first occurrences.
C1_DedupFirstWins ==
    Returned =>
        LET out == b_ret.val
        IN  /\ \A i, j \in DOMAIN out : out[i].title = out[j].title => i = j
            /\ { out[i].title : i \in DOMAIN out } = Titles
            /\ \A i \in DOMAIN out : out[i] = kept[FirstUrl(out[i].title)].val
            /\ \A i, j \in DOMAIN out :
                 i < j => FirstUrl(out[i].title) < FirstUrl(out[j].title)

\* a run that returned two records after dropping a later, different record
\* with the title of the first
C1_Witness ==
    /\ Returned
    /\ Len(books_data) = 3 /\ Len(b_ret.val) = 2
    /\ books_data[1].title = books_data[2].title
    /\ books_data[1] # books_data[2]
    /\ b_ret.val[1] = books_data[1] /\ b_ret.val[2] = books_data[3]

FetchDone == f_pc = "done"
Success2xx(r) == r.kind = "response" /\ r.status_code \in 200..299
Success200(r) == r.kind = "response" /\ r.status_code = 200

\* C4 as stated: at most `retries` requests; the response of the first
\* attempt with a 2xx status is returned and no request follows it; None
\* only after `retries` attempts that each failed (non-2xx or exception).
C4_Original ==
    FetchDone =>
        /\ f_ret.issued <= f_retries
        /\ ~f_ret.ret.none =>
             /\ f_ret.issued >= 1
             /\ f_ret.ret.val = f_stream[f_ret.issued]
             /\ Success2xx(f_stream[f_ret.issued])
             /\ \A j \in 1..(f_ret.issued - 1) : ~Success2xx(f_stream[j])
        /\ f_ret.ret.none =>
             /\ f_ret.issued = f_retries
             /\ \A j \in 1..f_retries : ~Success2xx(f_stream[j])

\* C4 amended: at most `retries` requests; the response of the first attempt
\* answered with status 200 is returned and no request follows it; every
\* other status (other 2xx codes too) and every RequestException is a failed
\* attempt; None only after `retries` attempts that each failed in that sense.
C4_FirstStatus200 ==
    FetchDone =>
        /\ f_ret.issued <= f_retries
        /\ ~f_ret.ret.none =>
             /\ f_ret.issued >= 1
             /\ f_ret.ret.val = f_stream[f_ret.issued]
             /\ Success200(f_stream[f_ret.issued])
             /\ \A j \in 1..(f_ret.issued - 1) : ~Success200(f_stream[j])
        /\ f_ret.ret.none =>
             /\ f_ret.issued = f_retries
             /\ \A j \in 1..f_retries : ~Success200(f_stream[j])

\* a call with three requests allowed that got a 204 first and returned the
\* 200 of the second attempt, leaving the third request unissued
C4_Witness ==
    /\ FetchDone /\ ~f_ret.ret.none
    /\ f_ret.issued = 2 /\ f_retries = 3
    /\ f_stream[1].kind = "response" /\ f_stream[1].status_code = 204
    /\ f_stream[3] = Exc

\* the records of the handled URLs that produced one, in URL order
RECURSIVE Compress(_)
Compress(ks) ==
    IF ks = <<>> THEN <<>>
    ELSE IF Head(ks).none THEN Compress(Tail(ks))
         ELSE <<Head(ks).val>> \o Compress(Tail(ks))

\* C5: no exception escapes scrape_multiple_books whatever way a URL fails;
\* a failing URL contributes no record, every later URL is still processed,
\* and the accumulated records are exactly those of the URLs that fetched
\* and parsed.
C5_NoExceptionEscapes ==
    /\ b_pc # "raised"
    /\ books_data = Compress(kept)
    /\ \A k \in DOMAIN log : log[k] # "record" <=> kept[k].none
    /\ Returned => Len(log) = Len(book_urls)

ValidOutcomes == {"fetch_failed", "parse_failed", "record"}
Handled == { k \in DOMAIN log : log[k] # "raised" }

\* C6 as stated: after each handled URL, whatever its outcome (a skip as
\* invalid too), exactly one rate-limit sleep has happened.
C6_Original ==
    /\ sleeps = Cardinality(Handled)
    /\ sleeps > 0 => lastSleep \in Delays

\* C6 amended: exactly one rate-limit sleep from the configured range
\* follows each URL that passed validation, whatever the scrape gave (fetch
\* failure, parse failure or record); a URL skipped as invalid is followed
\* by no sleep.
C6_SleepAfterValidOnly ==
    /\ sleeps = Cardinality({ k \in DOMAIN log : log[k] \in ValidOutcomes })
    /\ sleeps > 0 => lastSleep \in Delays
    /\ sleeps = 0 => lastSleep = 0

\* an invalid URL, a fetch failure and a parse failure handled: two sleeps
C6_Witness ==
    /\ log = <<"invalid", "fetch_failed", "parse_failed">>
    /\ sleeps = 2 /\ lastSleep = RATE_LIMIT_DELAY[2]

WellFormed(pg) ==
    /\ pg.rating.found => ~float_raises(pg.rating.text)
    /\ pg.ratingsCount.found => ~extract_int_raises(pg.ratingsCount.text)
    /\ pg.reviewsCount.found => ~extract_int_raises(pg.reviewsCount.text)

FallbacksScraper(pg, r) ==
    /\ ~pg.contentContainer.found => r.description = "N/A"
    /\ ~pg.ResponsiveImage.found => r.imageURL = FALLBACK_IMAGE_scraper
    /\ ~pg.genresList.found => r.category = <<"General">>
    /\ ~pg.rating.found => r.averageRating = "0.0"
    /\ ~pg.ratingsCount.found => r.totalRating = 0
    /\ ~pg.reviewsCount.found => r.totalReview = 0
    /\ ~pg.pagesFormat.found => r.pages = PyStr("N/A")
    /\ ~pg.publicationInfo.found => r.publication = PyStr("N/A")
    /\ ~pg.isbnDiv.found /\ ~pg.rawIsbn.found => r.isbn = PyStr("N/A")

FallbacksBooks(pg, r) ==
    /\ ~pg.description.found => r.description = <<"No description available.">>
    /\ ~pg.ResponsiveImage.found => r.imageURL = FALLBACK_IMAGE_books
    /\ ~pg.genresList.found => r.category = <<"General">>
    /\ ~pg.rating.found => r.averageRating = "0.0"

\* C7: on a fetched page with the title and author elements the parser
\* returns a record, and every field whose source element is absent holds
\* its documented fallback; no absent optional element discards the record.
C7_FallbackOnAbsence ==
    (p_pc = "done" /\ p_page.bookTitle.found /\ p_page.ContributorLink.found
        /\ WellFormed(p_page)) =>
        /\ ~p_ret.none
        /\ IF variant = "scraper" THEN FallbacksScraper(p_page, p_ret.val)
           ELSE FallbacksBooks(p_page, p_ret.val)

LacksTitleOrAuthor(pg) == ~pg.bookTitle.found \/ ~pg.ContributorLink.found

\* C10: when the title or the author element is absent from a fetched page,
\* scrape_goodreads_book returns None, nothing is accumulated for that URL,
\* no record with a fallback title or author appears, and the batch goes on
\* to the next URL.
C10_MissingTitleOrAuthorDropped ==
    \A k \in DOMAIN fetched :
        (~fetched[k].none /\ LacksTitleOrAuthor(fetched[k].val)) =>
            /\ kept[k].none
            /\ log[k] = "parse_failed"
            /\ Len(books_data) = Len(Compress(SubSeq(kept, 1, k - 1)))
                                 + Len(Compress(SubSeq(kept, k + 1, Len(kept))))
            /\ idx > k
            /\ b_pc = "raised" => Len(log) > k

\* a page without title dropped, and the next URL scraped into a record
C10_Witness ==
    /\ Len(fetched) = 2
    /\ ~fetched[1].none /\ ~fetched[1].val.bookTitle.found
    /\ log = <<"parse_failed", "record">>
    /\ Len(books_data) = 1

Seen == { c_book_urls[i] : i \in DOMAIN c_book_urls }

C2_Inv ==
    /\ \A i, j \in DOMAIN c_book_urls : c_book_urls[i] = c_book_urls[j] => i = j
    /\ Len(c_book_urls) <= max_urls
    /\ stopReason = "target" => Len(c_book_urls) = max_urls

\* the collection changes only by appending the link under examination,
\* and it does so exactly when that link is not collected yet
C2_Step ==
    IF c_pc = "links" /\ link_i <= Len(book_links)
       /\ FullUrl(book_links[link_i]) \notin Seen
    THEN c_book_urls' = Append(c_book_urls, FullUrl(book_links[link_i]))
    ELSE c_book_urls' = c_book_urls

\* C2: throughout a fetch_goodreads_urls run with max_urls >= 0 the collected
\* sequence has no duplicate, grows only by the first occurrence of each
\* link in page order then link order, and never exceeds max_urls; when the
\* loop ends on the target count it has exactly max_urls elements.
C2_CollectedUniqueOrderedCapped == []C2_Inv /\ [][C2_Step]_vars

\* the loop ended on the target count in the middle of a page that held a
\* further unseen link
C2_Witness ==
    /\ c_pc = "return" /\ stopReason = "target"
    /\ max_urls = 2 /\ Len(c_book_urls) = 2
    /\ link_i < Len(book_links)
    /\ FullUrl(book_links[Len(book_links)]) \notin Seen

\* C3: the crawler stops at the first listing page that adds no new URL (no
\* detail links, or only links already collected): no request follows it.
C3_StopsAtZeroNewPage ==
    zeroAt # 0 => requests = zeroAt

\* C9: the discovery tool ends with a non-zero exit status if it cannot
\* write its output file and with status 0 in every other run.
C9_ExitStatus ==
    c_pc = "exit" => (exit_status # 0 <=> out_file = "write_failed")

RECURSIVE ConcatData(_)
ConcatData(cs) == IF cs = <<>> THEN <<>> ELSE Head(cs).data \o ConcatData(Tail(cs))

AllSaved == \A i \in DOMAIN calls : calls[i].outcome = "saved"

\* C8: after any sequence of save_data_to_json calls that complete without
\* error on a path whose file was absent at first, the file holds the
\* concatenation of the calls' record lists in call order.
C8_AppendConcatenates ==
    (file0 = AbsentFile /\ AllSaved /\ calls # <<>>) =>
        /\ file.exists
        /\ ~json_load(file.text).none
        /\ json_load(file.text).val = ConcatData(calls)

\* the same two-record list saved twice: the file holds it twice
C8_Witness ==
    /\ file0 = AbsentFile /\ AllSaved /\ Len(calls) = 2
    /\ calls[1].data = calls[2].data /\ Len(calls[1].data) = 2
    /\ file.exists /\ Len(json_load(file.text).val) = 4

Malformed(f) == f.exists /\ json_load(f.text).none

\* C11 as stated: a call on a present but malformed file, with no I/O error,
\* behaves as on an absent file: the new records are written to the file.
C11_Original ==
    (Malformed(file0) /\ Len(calls) = 1 /\ calls[1].io = "ok") =>
        /\ calls[1].outcome = "saved"
        /\ file.exists /\ ~json_load(file.text).none
        /\ json_load(file.text).val = calls[1].data

\* C11 amended: a present but malformed file is not handled as an absent
\* one: json.load's error is caught by the outer handler and logged, the
\* call writes nothing and the file stays as it was.
C11_MalformedFileLeftAlone ==
    Malformed(file0) =>
        /\ file = file0
        /\ \A i \in DOMAIN calls : calls[i].outcome = "error"

\* a call with records to save, on a malformed file, with a file system
\* that raises nothing
C11_Witness ==
    /\ Malformed(file0) /\ Len(calls) = 1
    /\ calls[1].io = "ok" /\ Len(calls[1].data) = 2
    /\ calls[1].outcome = "error" /\ file = file0

\* the claim's fetch failure: a transport error or a non-success status
FailedFetch(o) == o.kind = "RequestException" \/ (o.kind = "response" /\ o.status_code >= 400)

CrawlOver == c_pc \in {"return", "main", "exit"}

\* the request that fails leaves the collection alone and ends the loop;
\* once the loop is over no request is issued and the collection, which is
\* the return value, does not change
C12_Step ==
    /\ (requests' = requests + 1 /\ FailedFetch(response')) =>
           (c_book_urls' = c_book_urls /\ c_pc' = "return")
    /\ (CrawlOver /\ FailedFetch(response)) =>
           (requests' = requests /\ c_book_urls' = c_book_urls /\ CrawlOver')

\* C12: when a listing-page fetch fails the crawler makes no further request
\* and returns exactly the URLs collected before the failure, in order.
C12_FetchFailureStops == [][C12_Step]_vars

\* two URLs collected on page 1, the request for page 2 failed with a
\* status error, the run ended with those two URLs after two requests
C12_Witness ==
    /\ c_pc = "exit" /\ requests = 2
    /\ response = Listing(404, <<>>)
    /\ c_book_urls = <<FullUrl(2), FullUrl(1)>>
    /\ max_urls = 3

Initial == IF file0.exists THEN json_load(file0.text).val ELSE <<>>
BothDone == \A p \in Procs : sc_pc[p] = "done"
Loaded == json_load(file.text)

\* C13: two invocations of save_data_to_json on one path: every serial
\* execution leaves the prior records and the records of both in the file,
\* in the order of the calls; an interleaving of their steps can end with
\* both invocations done and the records of one missing (the witness).
C13_SerialKeepsBoth ==
    /\ (\A p \in Procs : sc_pc[p] \in {"done", "error"}) /\ ~overlap => BothDone
    /\ (BothDone /\ ~overlap) =>
        /\ file.exists /\ ~Loaded.none
        /\ Loaded.val = Initial \o sc_data[sc_order[1]] \o sc_data[sc_order[2]]

\* both invocations read the absent file before either wrote: both are done
\* without error and the file holds the record of the second writer only
C13_Witness ==
    /\ BothDone /\ overlap
    /\ ~file0.exists
    /\ sc_data[1] = <<[title |-> "T1"]>> /\ sc_data[2] = <<[title |-> "T2"]>>
    /\ sc_order = <<1, 2>>
    /\ ~Loaded.none /\ Loaded.val = <<[title |-> "T2"]>>

WithoutCounts(soup) == [soup EXCEPT !.ratingsCount = Absent, !.reviewsCount = Absent]
CountOf(element) ==
    IF element.found THEN int_of_digits(strip_non_digits(element.text)) ELSE 0

\* C14: on a page that yields a record when its ratings-count and
\* reviews-count elements are left out, the parser of scraper.py yields a
\* record with them in, and totalRating and totalReview are the numbers
\* formed by the digits of their texts, 0 for an absent element.
C14_CountExtraction ==
    (/\ p_pc = "done" /\ variant = "scraper"
     /\ ~parse_scraper(WithoutCounts(p_page), p_rand).none) =>
        /\ ~p_ret.none
        /\ p_ret.val.totalRating = CountOf(p_page.ratingsCount)
        /\ p_ret.val.totalReview = CountOf(p_page.reviewsCount)

\* C15: fetch_goodreads_urls eventually terminates, whatever max_urls and
\* whatever the listing pages answer: every run in which the function keeps
\* taking its steps reaches its return.
C15_Terminates == <>(c_pc \in {"return", "main"})

====
